---- MODULE Spec2Model ----
(***************************************************************************)
(* The repair session of the refactoring swarm (src/src/graph.py,          *)
(* src/src/agents.py, src/main.py) and the sandbox path validation it      *)
(* rests on (src/src/tools/sandbox.py, src/src/tools/tester.py).           *)
(*                                                                         *)
(* Texts (code, model responses) are sequences of tokens:                  *)
(*   "F"  a code fence ```          (3 characters)                         *)
(*   "P"  the word python           (6 characters)                         *)
(*   "W"  one whitespace character                                         *)
(*   any other token is one non-blank character.                           *)
(* Paths are records [abs, segs]: an absolute flag and the segments.       *)
(***************************************************************************)
EXTENDS Integers, Sequences, FiniteSets, TLC

VARIABLES
    pc,         \* node the graph runs next: auditor, fixer, judge, router, END
    state,      \* the SwarmState record threaded through the nodes
    disk,       \* content of the target file on disk
    trace,      \* history: the nodes executed so far in this session, in order
    lastFix,    \* history: what the last transformation call did
    allThrew,   \* history: every transformation call so far raised
    targetDir,  \* --target_dir as given to the batch entry point
    passing,    \* the codes under which the test file's tests all pass
    links,      \* the symbolic links of the file system: location -> target
    pyMode,     \* what Path.resolve() of the running Python does on a symlink loop
    vpIn,       \* path validation: the path given to validate_path
    vpOut,      \* path validation: its outcome
    fs,         \* file operations: the files and directories of the file system
    call,       \* file operations: the FileOperations call in progress
    pin,        \* test runner: the output of the pytest subprocess
    pout,       \* test runner: the TestResult run_tests returns on it
    proc,       \* batch entry point: where main() is, what it printed, its exit
    writers,    \* concurrent writers: where each of two write_file calls is
    batch,      \* batch loop: main()'s loop over the files, stage by stage
    lastRun     \* history: what the tools did in the last audit or judgement

fileVars == <<fs, call>>
sideVars == <<pin, pout, proc, writers, batch>>

vars == <<pc, state, disk, trace, lastFix, allThrew, targetDir, passing,
          links, pyMode, vpIn, vpOut, fileVars, sideVars, lastRun>>

----------------------------------------------------------------------------
(* Program constants *)

JudgeCeiling == 5
RouterLimit == 5
RecursionLimit == 50
MinCodeLen == 10

----------------------------------------------------------------------------
(* Small helpers *)

SetMin(S) == CHOOSE x \in S : \A y \in S : x <= y
SetMax(S) == CHOOSE x \in S : \A y \in S : x >= y
Rep(n, c) == [i \in 1..n |-> c]
IsPrefix(s, t) == Len(s) <= Len(t) /\ SubSeq(t, 1, Len(s)) = s

----------------------------------------------------------------------------
(* Texts: agents.py _chat / _extract_code_from_response *)

Width(t) == IF t = "F" THEN 3 ELSE IF t = "P" THEN 6 ELSE 1

RECURSIVE CharLen(_)
CharLen(s) == IF s = <<>> THEN 0 ELSE Width(Head(s)) + CharLen(Tail(s))

\* str.strip(): drop leading and trailing whitespace
strip(s) ==
    LET idx == {i \in 1..Len(s) : s[i] # "W"}
    IN  IF idx = {} THEN <<>> ELSE SubSeq(s, SetMin(idx), SetMax(idx))

\* positions of a closing fence at or after position from
Closers(r, from) == {j \in from..Len(r) : r[j] = "F"}

\* openers of ```python\s*(.*?)\s*``` that have a closing fence
PyMatches(r) ==
    {i \in 1..(Len(r) - 1) : r[i] = "F" /\ r[i + 1] = "P" /\ Closers(r, i + 2) # {}}

\* openers of ```\s*(.*?)\s*``` that have a closing fence
PlainMatches(r) == {i \in 1..Len(r) : r[i] = "F" /\ Closers(r, i + 1) # {}}

extract_code_from_response(response) ==
    IF PyMatches(response) # {}
    THEN LET i == SetMin(PyMatches(response))
             j == SetMin(Closers(response, i + 2))
         IN  strip(SubSeq(response, i + 2, j - 1))
    ELSE IF PlainMatches(response) # {}
    THEN LET i == SetMin(PlainMatches(response))
             j == SetMin(Closers(response, i + 1))
         IN  strip(SubSeq(response, i + 1, j - 1))
    ELSE strip(response)

\* what the transformation call can do: raise, or return a text
Raised == [raised |-> TRUE, content |-> <<>>]
Returned(text) == [raised |-> FALSE, content |-> text]

\* _chat: the content of the reply, stripped
chat(llm) == strip(llm.content)

----------------------------------------------------------------------------
(* Paths: pathlib parsing, joining and resolution, as used by sandbox.py *)

Rel(segs) == [abs |-> FALSE, segs |-> segs]
Abs(segs) == [abs |-> TRUE, segs |-> segs]

\* Path(path): "." segments are dropped, ".." segments are kept
PathOf(raw) == [abs |-> raw.abs, segs |-> SelectSeq(raw.segs, LAMBDA s : s # ".")]

\* a / b: an absolute right operand replaces the left one
PathJoin(a, b) == IF b.abs THEN b ELSE [abs |-> a.abs, segs |-> a.segs \o b.segs]

Parent(segs) == IF segs = <<>> THEN <<>> ELSE SubSeq(segs, 1, Len(segs) - 1)

\* os.path.normpath of an absolute path: lexical removal of "." and ".."
RECURSIVE NormFrom(_, _)
NormFrom(done, rest) ==
    IF rest = <<>> THEN done
    ELSE IF Head(rest) = "." THEN NormFrom(done, Tail(rest))
    ELSE IF Head(rest) = ".." THEN NormFrom(Parent(done), Tail(rest))
    ELSE NormFrom(Append(done, Head(rest)), Tail(rest))

\* the kernel's limit on symbolic links followed in one lookup
MaxSymlinks == 40

\* The kernel's path lookup from directory cur: where the path physically
\* leads.  A name that is no link is taken as a plain entry of cur.
AtLink(cur, rest) ==
    /\ rest # <<>>
    /\ Head(rest) \notin {".", ".."}
    /\ Append(cur, Head(rest)) \in DOMAIN links

\* a link that leads to itself: following it leaves the lookup where it is,
\* so it is followed until the limit is reached
SelfLink(cur, rest) ==
    /\ links[Append(cur, Head(rest))].segs = <<Head(rest)>>
    /\ links[Append(cur, Head(rest))].abs => cur = <<>>

RECURSIVE Walk(_, _, _)
Walk(cur, rest, fuel) ==
    IF AtLink(cur, rest) /\ fuel > 0 /\ ~SelfLink(cur, rest)
    THEN Walk(IF links[Append(cur, Head(rest))].abs THEN <<>> ELSE cur,
              links[Append(cur, Head(rest))].segs \o Tail(rest), fuel - 1)
    ELSE IF AtLink(cur, rest) THEN [kind |-> "ELOOP", path |-> Append(cur, Head(rest))]
    ELSE IF rest = <<>> THEN [kind |-> "ok", path |-> cur]
    ELSE IF Head(rest) = "." THEN Walk(cur, Tail(rest), fuel)
    ELSE IF Head(rest) = ".." THEN Walk(Parent(cur), Tail(rest), fuel)
    ELSE Walk(Append(cur, Head(rest)), Tail(rest), fuel)

Locate(segs) == Walk(<<>>, segs, MaxSymlinks)

\* posixpath._joinrealpath (non-strict).  path: the resolved prefix, rest:
\* the segments still to process, active: the links being resolved.
\* mode says what a symlink loop does:
\*   "raise"    the resolver raises at once            (pathlib before 3.10)
\*   "join"     the rest is joined on unprocessed      (realpath, 3.10-3.12)
\*   "continue" the link is kept, processing goes on   (realpath, 3.13)
RECURSIVE JoinRealPath(_, _, _, _)
JoinRealPath(path, rest, active, mode) ==
    IF rest = <<>> THEN [path |-> path, ok |-> TRUE]
    ELSE LET name    == Head(rest)
             tl      == Tail(rest)
             newpath == Append(path, name)
         IN  IF name = "." THEN JoinRealPath(path, tl, active, mode)
             ELSE IF name = ".." THEN JoinRealPath(Parent(path), tl, active, mode)
             ELSE IF newpath \notin DOMAIN links
             THEN JoinRealPath(newpath, tl, active, mode)
             ELSE IF newpath \in active
             THEN IF mode = "continue"
                  THEN JoinRealPath(newpath, tl, active, mode)
                  ELSE [path |-> newpath \o tl, ok |-> FALSE]
             ELSE LET tgt == links[newpath]
                      sub == JoinRealPath(IF tgt.abs THEN <<>> ELSE path,
                                          tgt.segs, active \cup {newpath}, mode)
                  IN  IF ~sub.ok
                      THEN [path |-> sub.path \o tl, ok |-> FALSE]
                      ELSE JoinRealPath(sub.path, tl, active, mode)

\* Path.resolve() of an absolute path: the resolved segments, or an error
\* (RuntimeError / OSError on a symlink loop)
resolve(p, mode) ==
    LET r == JoinRealPath(<<>>, p.segs, {}, mode)
        n == NormFrom(<<>>, r.path)
    IN  IF r.ok THEN [err |-> FALSE, segs |-> n]
        ELSE IF mode = "raise" THEN [err |-> TRUE, segs |-> n]
        ELSE IF mode = "join" /\ Locate(n).kind = "ELOOP" THEN [err |-> TRUE, segs |-> n]
        ELSE [err |-> FALSE, segs |-> n]

\* SandboxManager.validate_path
validate_path(sandbox_root, raw, mode) ==
    IF ~raw.abs /\ raw.segs = <<>> THEN [kind |-> "ValueError", path |-> <<>>]
    ELSE LET path     == PathOf(raw)
             full     == IF ~path.abs THEN PathJoin(Abs(sandbox_root), path) ELSE path
             resolved == resolve(full, mode)
         IN  IF resolved.err THEN [kind |-> "SecurityError", path |-> <<>>]
             ELSE IF ~IsPrefix(sandbox_root, resolved.segs)
             THEN [kind |-> "SecurityError", path |-> <<>>]
             ELSE [kind |-> "ok", path |-> resolved.segs]

\* mutant of is_safe: only SecurityError is caught
is_safe_narrow(sandbox_root, raw, mode) ==
    LET v == validate_path(sandbox_root, raw, mode)
    IN  IF v.kind = "ok" THEN [kind |-> "True", path |-> <<>>]
        ELSE IF v.kind = "SecurityError" THEN [kind |-> "False", path |-> <<>>]
        ELSE [kind |-> "raised", path |-> <<>>]

\* SandboxManager.is_safe: True, False, or an exception it lets through
is_safe(sandbox_root, raw, mode) ==
    LET v == validate_path(sandbox_root, raw, mode)
    IN  IF v.kind = "ok" THEN [kind |-> "True", path |-> <<>>]
        ELSE IF v.kind \in {"SecurityError", "ValueError"}
        THEN [kind |-> "False", path |-> <<>>]
        ELSE [kind |-> "raised", path |-> <<>>]

\* SandboxManager.get_safe_path: sandbox_root / relative_path, validated
get_safe_path(sandbox_root, raw, mode) ==
    validate_path(sandbox_root, PathJoin(Abs(sandbox_root), PathOf(raw)), mode)

----------------------------------------------------------------------------
(* The files of a session: main.py pairs bad_calc.py with its test file *)

Cwd == <<"w">>
SandboxArg == Rel(<<".", "sandbox">>)
TargetName == "bad_calc.py"
TestName == "test_bad_calc.py"
TmpName == "tmp.py"
NoLinks == [l \in {} |-> Rel(<<>>)]

\* the forms of --target_dir
TargetDirs ==
    {Rel(<<".", "sandbox">>), Abs(<<"w", "sandbox">>), Abs(<<"w", "proj">>)}

\* a path as the operating system takes it: relative to the working directory
OsAbs(raw) == resolve(PathJoin(Abs(Cwd), PathOf(raw)), pyMode).segs

\* SandboxManager.__init__: the root is the resolved sandbox path
SandboxRoot(raw) == OsAbs(raw)

\* initialize_sandbox: a new manager for the given path
initialize_sandbox(raw) == SandboxRoot(raw)

\* os.path.join(dir, name)
os_path_join(dir, name) == [abs |-> dir.abs, segs |-> Append(dir.segs, name)]

\* the files that exist: the target file and its test file in the target directory
FilesOnDisk ==
    {OsAbs(os_path_join(targetDir, TargetName)), OsAbs(os_path_join(targetDir, TestName))}

\* os.path.exists(path)
os_path_exists(raw) == OsAbs(raw) \in FilesOnDisk

----------------------------------------------------------------------------
(* The external tools: tester.py run_tests, analyzer.py analyze *)

OrigCode == <<"o", "o", "W", "o">>
FixA == Rep(MinCodeLen, "a")
FixB == Rep(MinCodeLen, "b")

\* what the pytest subprocess can do on a target file holding content:
\* time out or crash, or report its counts
ToolOutcomes(content) ==
    {[crashed |-> TRUE, failed |-> 0, errors |-> 0]} \cup
    (IF content \in passing
     THEN {[crashed |-> FALSE, failed |-> 0, errors |-> 0]}
     ELSE {[crashed |-> FALSE, failed |-> 1, errors |-> 0],
           [crashed |-> FALSE, failed |-> 0, errors |-> 1]})

\* mutant of TestResult(success=False, error=...): the tests count as passed
TestFailure_passed(error) ==
    [success |-> FALSE, all_tests_passed |-> TRUE, failed |-> 0, errors |-> 0,
     error |-> error]

\* TestResult(success=False, error=...)
TestFailure(error) ==
    [success |-> FALSE, all_tests_passed |-> FALSE, failed |-> 0, errors |-> 0,
     error |-> error]

\* PytestRunner.run_tests
run_tests(test_path, sandbox_root, tool) ==
    LET safe == validate_path(sandbox_root, test_path, pyMode)
    IN  IF safe.kind = "SecurityError" THEN TestFailure("Security violation")
        ELSE IF safe.kind # "ok" THEN TestFailure("Test execution failed")
        ELSE IF safe.path \notin FilesOnDisk THEN TestFailure("Test path not found")
        ELSE IF tool.crashed THEN TestFailure("Test execution failed")
        ELSE [success |-> TRUE,
              all_tests_passed |-> (tool.failed = 0 /\ tool.errors = 0),
              failed |-> tool.failed, errors |-> tool.errors, error |-> "None"]

\* run_pytest(test_path, sandbox)
run_pytest(test_path, sandbox_root, tool) == run_tests(test_path, sandbox_root, tool)

\* The text the pytest subprocess prints, as far as _parse_output reads it:
\* the "<count> <word>" items of its summary, and whether the summary stands
\* in a banner "=== ... in 0.12s ===".  A count is a run of digits: the
\* number it writes, or huge, a run of more than 4300 digits, which int()
\* refuses with ValueError.
Digits(n) == [huge |-> FALSE, n |-> n]
Huge == [huge |-> TRUE, n |-> 0]
Counts == {Digits(0), Digits(2), Huge}
Words == {"passed", "failed", "Skipped", "error", "errors", "xfailed", "total"}
Items == [count : Counts, word : Words]

\* stats = {"total": 0, "passed": 0, "failed": 0, "skipped": 0, "errors": 0}
NoStats == [total |-> 0, passed |-> 0, failed |-> 0, skipped |-> 0, errors |-> 0]

\* sum([stats["passed"], stats["failed"], stats["skipped"], stats["errors"]])
SumOf(stats) == stats.passed + stats.failed + stats.skipped + stats.errors

\* summary_pattern (\d+)\s+(passed|failed|skipped|error) with re.IGNORECASE:
\* the key a word is counted under when the pattern matches its beginning
SummaryKey(word) ==
    CASE word = "passed" -> "passed"
      [] word = "failed" -> "failed"
      [] word = "Skipped" -> "skipped"
      [] word \in {"error", "errors"} -> "errors"
      [] OTHER -> "none"

\* the loop over the matches of summary_pattern; int(count) may raise
RECURSIVE SummaryLoop(_, _)
SummaryLoop(stats, items) ==
    IF items = <<>> THEN [stats |-> stats, raised |-> FALSE]
    ELSE LET count == Head(items).count
             key == SummaryKey(Head(items).word)
         IN  IF key = "none" THEN SummaryLoop(stats, Tail(items))
             ELSE IF count.huge THEN [stats |-> stats, raised |-> TRUE]
             ELSE SummaryLoop([stats EXCEPT ![key] = count.n], Tail(items))

\* the loop over the matches of (\d+)\s+(\w+) in the banner: every item is a
\* match and is converted; it is stored when its word is a key of stats
RECURSIVE AltLoop(_, _)
AltLoop(stats, items) ==
    IF items = <<>> THEN [stats |-> stats, raised |-> FALSE]
    ELSE LET count == Head(items).count
             status == Head(items).word
         IN  IF count.huge THEN [stats |-> stats, raised |-> TRUE]
             ELSE IF status \in DOMAIN stats
                  THEN AltLoop([stats EXCEPT ![status] = count.n], Tail(items))
                  ELSE AltLoop(stats, Tail(items))

\* PytestRunner._parse_output: the stats it returns; an exception ends the
\* parsing and the stats are returned as they are
parse_output(output) ==
    LET first == SummaryLoop(NoStats, output.items)
        summed == [first.stats EXCEPT !.total = SumOf(first.stats)]
        alt == AltLoop(summed, output.items)
    IN  IF first.raised THEN first.stats
        ELSE IF summed.total # 0 \/ ~output.banner THEN summed
        ELSE IF alt.raised THEN alt.stats
        ELSE [alt.stats EXCEPT !.total = SumOf(alt.stats)]

\* PytestRunner.run_tests on a subprocess that printed raw.output, or timed
\* out or crashed: the TestResult with its stats
run_tests_stats(test_path, sandbox_root, raw) ==
    LET stats == parse_output(raw.output)
        result == run_tests(test_path, sandbox_root,
                            [crashed |-> raw.crashed, failed |-> stats.failed,
                             errors |-> stats.errors])
    IN  [success |-> result.success,
         all_tests_passed |-> result.all_tests_passed,
         stats |-> IF result.success THEN stats ELSE NoStats,
         error |-> result.error]

Scores == {7}

\* what the pylint subprocess can do: time out or crash, or rate the file
PylintOutcomes ==
    {[crashed |-> TRUE, score |-> 0, issues |-> 0]} \cup
    {[crashed |-> FALSE, score |-> s, issues |-> 1] : s \in Scores}

\* PylintAnalyzer.analyze of a file that exists and ends in .py
analyze(filepath, sandbox_root, pylint) ==
    LET safe == validate_path(sandbox_root, filepath, pyMode)
    IN  IF safe.kind # "ok" \/ pylint.crashed
        THEN [success |-> FALSE, score |-> 0, issues |-> 0]
        ELSE [success |-> TRUE, score |-> pylint.score, issues |-> pylint.issues]

\* run_pylint(filepath, sandbox)
run_pylint(filepath, sandbox_root, pylint) == analyze(filepath, sandbox_root, pylint)

\* tempfile.NamedTemporaryFile(suffix=".py", dir="./sandbox").name
TmpPath == Abs(Append(OsAbs(SandboxArg), TmpName))

----------------------------------------------------------------------------
(* The three nodes: agents.py *)

NoPylintReport == [empty |-> TRUE, pylint_score |-> 0, test_passed |-> "None"]
NoTestReport ==
    [empty |-> TRUE, score |-> 0, test_passed |-> FALSE,
     test_output |-> [ran |-> FALSE, success |-> FALSE, failed |-> 0, errors |-> 0,
                      error |-> "None"]]

\* auditor_agent: the result it builds from the analysis and the test run.
\* has_test: the test file exists
AuditResult(analysis, has_test, test_result) ==
    [empty |-> FALSE,
     pylint_score |-> IF analysis.success THEN analysis.score ELSE 0,
     test_passed |->
         IF ~has_test THEN "None"
         ELSE IF (IF test_result.success THEN test_result.all_tests_passed ELSE FALSE)
              THEN "True" ELSE "False"]

\* mutants of auditor_agent: the counter is not raised; it is raised twice
auditor_agent_stuck(s, analysis, has_test, test_result) ==
    [pylint_report |-> AuditResult(analysis, has_test, test_result),
     iteration |-> s.iteration]

auditor_agent_twice(s, analysis, has_test, test_result) ==
    [pylint_report |-> AuditResult(analysis, has_test, test_result),
     iteration |-> s.iteration + 2]

\* auditor_agent: the update it returns
auditor_agent(s, analysis, has_test, test_result) ==
    [pylint_report |-> AuditResult(analysis, has_test, test_result),
     iteration |-> s.iteration + 1]

\* the code the fixer takes from the reply
FixedCode(llm) == extract_code_from_response(chat(llm))

\* mutants of fixer_agent: an exception clears the code; the length check
\* is off by one
fixer_agent_clears(s, llm) ==
    IF llm.raised THEN [code_content |-> <<>>]
    ELSE IF FixedCode(llm) = <<>> \/ CharLen(FixedCode(llm)) < MinCodeLen
         THEN [code_content |-> s.code_content]
         ELSE [code_content |-> FixedCode(llm)]

fixer_agent_lax(s, llm) ==
    IF llm.raised THEN [code_content |-> s.code_content]
    ELSE IF FixedCode(llm) = <<>> \/ CharLen(FixedCode(llm)) < MinCodeLen - 1
         THEN [code_content |-> s.code_content]
         ELSE [code_content |-> FixedCode(llm)]

\* fixer_agent: the update it returns
fixer_agent(s, llm) ==
    IF llm.raised THEN [code_content |-> s.code_content]
    ELSE LET fixed_code == FixedCode(llm)
         IN  IF fixed_code = <<>> \/ CharLen(fixed_code) < MinCodeLen
             THEN [code_content |-> s.code_content]
             ELSE [code_content |-> fixed_code]

\* judge_agent: the result it builds from the test run and the analysis
JudgeResult(has_test, test_result, analysis) ==
    [empty |-> FALSE,
     score |-> IF analysis.success THEN analysis.score ELSE 0,
     test_passed |->
         IF has_test
         THEN (IF test_result.success THEN test_result.all_tests_passed ELSE FALSE)
         ELSE FALSE,
     test_output |-> [ran |-> has_test, success |-> has_test /\ test_result.success,
                      failed |-> test_result.failed, errors |-> test_result.errors,
                      error |-> IF has_test THEN test_result.error ELSE "None"]]

\* mutants of judge_agent: success also asks for a successful analysis; the
\* judge resets the analysis report
judge_agent_gated(s, has_test, test_result, analysis) ==
    [test_report |-> JudgeResult(has_test, test_result, analysis),
     is_success |-> ((JudgeResult(has_test, test_result, analysis).test_passed
                         /\ analysis.success)
                     \/ s.iteration >= JudgeCeiling)]

judge_agent_resets(s, has_test, test_result, analysis) ==
    [test_report |-> JudgeResult(has_test, test_result, analysis),
     is_success |-> (JudgeResult(has_test, test_result, analysis).test_passed
                     \/ s.iteration >= JudgeCeiling),
     pylint_report |-> NoPylintReport]

\* mutant of judge_agent: the ceiling is one iteration later
judge_agent_late(s, has_test, test_result, analysis) ==
    [test_report |-> JudgeResult(has_test, test_result, analysis),
     is_success |-> (JudgeResult(has_test, test_result, analysis).test_passed
                     \/ s.iteration >= JudgeCeiling + 1)]

\* judge_agent: the update it returns
judge_agent(s, has_test, test_result, analysis) ==
    LET result == JudgeResult(has_test, test_result, analysis)
    IN  [test_report |-> result,
         is_success |-> (result.test_passed \/ s.iteration >= JudgeCeiling)]

----------------------------------------------------------------------------
(* The graph: graph.py *)

\* mutant of router: the limit is reached one iteration early
router_early(s) ==
    IF s.is_success THEN "end"
    ELSE IF s.iteration >= RouterLimit THEN "end"
    ELSE "auditor"

router(s) ==
    IF s.is_success THEN "end"
    ELSE IF s.iteration > RouterLimit THEN "end"
    ELSE "auditor"

\* mutant of workflow: the edge out of auditor leads past the fixer
workflow_skips(node, s) ==
    IF node = "auditor" THEN "judge"
    ELSE IF node = "fixer" THEN "judge"
    ELSE IF router(s) = "end" THEN "END" ELSE "auditor"

\* add_edge / add_conditional_edges: the node that follows a node
workflow(node, s) ==
    IF node = "auditor" THEN "fixer"
    ELSE IF node = "fixer" THEN "judge"
    ELSE IF router(s) = "end" THEN "END" ELSE "auditor"

\* a node's update is merged into the state, key by key
Merge(s, update) == update @@ s

\* app.stream(initial_state, {"recursion_limit": 50}): a node runs only
\* while fewer than recursion_limit nodes have run
Continue(next, executed) ==
    IF next # "END" /\ executed >= RecursionLimit THEN "recursion_error" ELSE next

\* main.py: the state a session starts in
initial_state(dir) ==
    [target_file |-> os_path_join(dir, TargetName),
     test_file |-> os_path_join(dir, TestName),
     code_content |-> OrigCode,
     pylint_report |-> NoPylintReport,
     test_report |-> NoTestReport,
     iteration |-> 0,
     is_success |-> FALSE]

----------------------------------------------------------------------------
(* The replies of the transformation call *)

Short == Rep(MinCodeLen - 1, "a")

Responses ==
    {<<"F", "P", "W">> \o FixA \o <<"W", "F">>,
     <<"a", "W", "F", "P", "W">> \o FixB \o <<"F", "W", "a">>,
     <<"F", "W">> \o FixB \o <<"W", "F">>,
     <<"W">> \o FixA \o <<"W">>,
     <<"F", "P", "W">> \o Short \o <<"W", "F">>,
     <<"F", "W", "F">>,
     <<"W">> \o Short,
     <<"F", "P">>,
     <<"W", "W">>}

LLMOutcomes == {Raised} \cup {Returned(r) : r \in Responses}

NoFix == [called |-> FALSE, raised |-> FALSE, len |-> 0, before |-> <<>>]

----------------------------------------------------------------------------
(* File operations: file_ops.py, on a file system of directory entries      *)
(* (fs.files: location -> inode, links: location -> target, fs.dirs) and    *)
(* inodes (fs.data: inode -> the characters stored).  A character is a      *)
(* token: "CR" and "LF" are the line ends, "SUR" is a lone surrogate that   *)
(* utf-8 cannot encode, "BAD" is a byte utf-8 cannot decode, any other      *)
(* token is an ordinary character.                                          *)

\* the root the SandboxManager of the file operations was built with
FilesRoot == <<"w", "sandbox">>

Remove(f, k) == [x \in DOMAIN f \ {k} |-> f[x]]
Put(f, k, v) == (k :> v) @@ f

\* Path.with_suffix(path.suffix + sfx): the name with sfx appended
with_suffix(name, sfx) ==
    CASE name = "a.py" /\ sfx = ".tmp" -> "a.py.tmp"
      [] name = "a.py" /\ sfx = ".bak.T1" -> "a.py.bak.T1"
      [] name = "a.py" /\ sfx = ".bak.T2" -> "a.py.bak.T2"
      [] name = "a.py.tmp" /\ sfx = ".bak.T1" -> "a.py.tmp.bak.T1"
      [] name = "a.py.tmp" /\ sfx = ".bak.T2" -> "a.py.tmp.bak.T2"
      [] name = "passwd" /\ sfx = ".tmp" -> "passwd.tmp"
      [] name = "passwd" /\ sfx = ".bak.T1" -> "passwd.bak.T1"
      [] name = "passwd" /\ sfx = ".bak.T2" -> "passwd.bak.T2"

Sibling(path, sfx) == Append(Parent(path), with_suffix(path[Len(path)], sfx))

\* what a location holds, links not followed
Entry(f, path) ==
    IF path \in DOMAIN links THEN "link"
    ELSE IF path \in DOMAIN f.files THEN "file"
    ELSE IF path \in f.dirs THEN "dir"
    ELSE "none"

\* the location of the entry a path names: the links of its directory are
\* followed, the entry itself is not
Phys(path) ==
    IF path = <<>> THEN <<>>
    ELSE Append(Walk(<<>>, Parent(path), MaxSymlinks).path, path[Len(path)])

\* stat(path): what the path leads to, links followed
Stat(f, path) ==
    LET l == Locate(path)
    IN  IF l.kind # "ok" THEN [kind |-> "ELOOP", at |-> l.path]
        ELSE [kind |-> Entry(f, l.path), at |-> l.path]

\* Path.exists(): a lookup that fails counts as absent
exists(f, path) == Stat(f, path).kind \in {"file", "dir"}
is_file(f, path) == Stat(f, path).kind = "file"

Ino(f, path) == f.files[Stat(f, path).at]
NewIno(f) == IF DOMAIN f.data = {} THEN 1 ELSE SetMax(DOMAIN f.data) + 1

\* open(path, "w"): the file is created, or emptied if it is there
open_w(f, path) ==
    LET st == Stat(f, path)
    IN  IF st.kind = "ELOOP" THEN [err |-> "OSError", fs |-> f, ino |-> 0]
        ELSE IF st.kind = "dir" THEN [err |-> "IsADirectoryError", fs |-> f, ino |-> 0]
        ELSE IF st.kind = "file"
        THEN [err |-> "None", ino |-> f.files[st.at],
              fs |-> [f EXCEPT !.data[f.files[st.at]] = <<>>]]
        ELSE IF Parent(st.at) \notin f.dirs
        THEN [err |-> "FileNotFoundError", fs |-> f, ino |-> 0]
        ELSE [err |-> "None", ino |-> NewIno(f),
              fs |-> [f EXCEPT !.files = Put(f.files, st.at, NewIno(f)),
                               !.data = Put(f.data, NewIno(f), <<>>)]]

\* str.encode("utf-8")
Encodable(content) == \A i \in 1..Len(content) : content[i] # "SUR"

\* bytes.decode("utf-8"), and the latin-1 decoding read_file falls back on
Decodable(bytes) == \A i \in 1..Len(bytes) : bytes[i] # "BAD"
Latin1(bytes) == [i \in 1..Len(bytes) |-> IF bytes[i] = "BAD" THEN "y" ELSE bytes[i]]

\* reading in text mode: "\r\n" and "\r" are given as "\n"
RECURSIVE Newlines(_)
Newlines(t) ==
    IF t = <<>> THEN <<>>
    ELSE IF Head(t) = "CR"
    THEN IF Len(t) > 1 /\ t[2] = "LF" THEN <<"LF">> \o Newlines(Tail(Tail(t)))
         ELSE <<"LF">> \o Newlines(Tail(t))
    ELSE <<Head(t)>> \o Newlines(Tail(t))

\* Path.read_text(encoding) of a file that is there
read_text(f, path, latin1) ==
    LET bytes == f.data[Ino(f, path)]
    IN  IF latin1 THEN [err |-> "None", text |-> Newlines(Latin1(bytes))]
        ELSE IF ~Decodable(bytes) THEN [err |-> "UnicodeDecodeError", text |-> <<>>]
        ELSE [err |-> "None", text |-> Newlines(bytes)]

\* os.rename(src, dst) of two entries of one directory: the entry itself
\* moves, a link is not followed
rename(f, lk, from, to) ==
    LET src == Phys(from)
        dst == Phys(to)
        se  == Entry(f, src)
        de  == Entry(f, dst)
    IN  IF se = "none" THEN [err |-> "FileNotFoundError", fs |-> f, links |-> lk]
        ELSE IF de = "dir" /\ se # "dir"
        THEN [err |-> "IsADirectoryError", fs |-> f, links |-> lk]
        ELSE IF se = "dir" THEN [err |-> "OSError", fs |-> f, links |-> lk]
        ELSE IF se = "file" /\ de = "file" /\ f.files[src] = f.files[dst]
        THEN [err |-> "None", fs |-> f, links |-> lk]
        ELSE IF se = "link"
        THEN [err |-> "None",
              fs |-> [f EXCEPT !.files = Remove(f.files, dst)],
              links |-> Put(Remove(Remove(lk, src), dst), dst, lk[src])]
        ELSE [err |-> "None",
              fs |-> [f EXCEPT !.files = Put(Remove(f.files, src), dst, f.files[src])],
              links |-> Remove(lk, dst)]

\* Path.unlink()
unlink(f, lk, raw) ==
    LET path == Phys(raw)
        e    == Entry(f, path)
    IN  IF e = "none" THEN [err |-> "FileNotFoundError", fs |-> f, links |-> lk]
        ELSE IF e = "dir" THEN [err |-> "IsADirectoryError", fs |-> f, links |-> lk]
        ELSE IF e = "link" THEN [err |-> "None", fs |-> f, links |-> Remove(lk, path)]
        ELSE [err |-> "None", fs |-> [f EXCEPT !.files = Remove(f.files, path)],
              links |-> lk]

\* Path.mkdir(parents=True, exist_ok=True)
Prefixes(path) == {SubSeq(path, 1, k) : k \in 0..Len(path)}
mkdir(f, path) ==
    LET st == Stat(f, path)
    IN  IF st.kind = "dir" THEN [err |-> "None", fs |-> f]
        ELSE IF st.kind \in {"file", "ELOOP"} THEN [err |-> "FileExistsError", fs |-> f]
        ELSE IF \E d \in Prefixes(st.at) : d \in DOMAIN f.files
        THEN [err |-> "NotADirectoryError", fs |-> f]
        ELSE [err |-> "None", fs |-> [f EXCEPT !.dirs = f.dirs \cup Prefixes(st.at)]]

\* mutant of copy2: the copy is created and left empty
copy2_empty(f, src, dst) ==
    IF Stat(f, src).kind # "file" THEN [err |-> "IsADirectoryError", fs |-> f]
    ELSE IF open_w(f, dst).err # "None" THEN [err |-> open_w(f, dst).err, fs |-> f]
    ELSE [err |-> "None", fs |-> open_w(f, dst).fs]

\* shutil.copyfile(src, dst)
copyfile(f, src, dst) ==
    LET s == Stat(f, src)
        d == Stat(f, dst)
    IN  IF d.kind \in {"file", "dir"} /\ d.at = s.at
        THEN [err |-> "SameFileError", fs |-> f]
        ELSE IF d.kind = "file" /\ s.kind = "file" /\ f.files[d.at] = f.files[s.at]
        THEN [err |-> "SameFileError", fs |-> f]
        ELSE IF s.kind # "file" THEN [err |-> "IsADirectoryError", fs |-> f]
        ELSE LET o == open_w(f, dst)
             IN  IF o.err # "None" THEN [err |-> o.err, fs |-> f]
                 ELSE [err |-> "None",
                       fs |-> [o.fs EXCEPT !.data[o.ino] = f.data[f.files[s.at]]]]

\* shutil.copy2(src, dst) of a source that exists: into dst when dst is a
\* directory, else onto dst
copy2(f, src, dst) ==
    copyfile(f, src, IF Stat(f, dst).kind = "dir"
                     THEN Append(dst, src[Len(src)]) ELSE dst)

\* FileOperationResult
Result(success, content, error) ==
    [success |-> success, content |-> content, error |-> error, backup_path |-> <<>>]
NoResult == Result(FALSE, <<>>, "pending")

Timestamps == {"T1", "T2"}
BakSuffix(ts) == IF ts = "T1" THEN ".bak.T1" ELSE ".bak.T2"

\* FileOperations.create_backup: the result and the file system it leaves
create_backup(f, root, raw, mode, ts) ==
    LET v == validate_path(root, raw, mode)
    IN  IF v.kind # "ok"
        THEN [res |-> Result(FALSE, <<>>, "Backup failed"), fs |-> f]
        ELSE IF ~exists(f, v.path)
        THEN [res |-> Result(FALSE, <<>>, "Cannot backup: file does not exist"), fs |-> f]
        ELSE LET backup_path == Sibling(v.path, BakSuffix(ts))
                 c == copy2(f, v.path, backup_path)
             IN  IF c.err # "None"
                 THEN [res |-> Result(FALSE, <<>>, "Backup failed"), fs |-> f]
                 ELSE [res |-> [Result(TRUE, <<>>, "None")
                                   EXCEPT !.backup_path = backup_path],
                       fs |-> c.fs]

\* FileOperations.read_file
read_file(f, root, raw, mode) ==
    LET v == validate_path(root, raw, mode)
    IN  IF v.kind = "SecurityError" THEN Result(FALSE, <<>>, "Security violation")
        ELSE IF v.kind # "ok" THEN Result(FALSE, <<>>, "Unexpected error")
        ELSE IF ~exists(f, v.path) THEN Result(FALSE, <<>>, "File not found")
        ELSE IF ~is_file(f, v.path) THEN Result(FALSE, <<>>, "Not a file")
        ELSE IF read_text(f, v.path, FALSE).err = "None"
        THEN Result(TRUE, read_text(f, v.path, FALSE).text, "None")
        ELSE Result(TRUE, read_text(f, v.path, TRUE).text, "None")

\* mutant of get_file_info: a file that is not there is reported as found
get_file_info_found(f, root, raw, mode) ==
    IF validate_path(root, raw, mode).kind # "ok"
    THEN Result(FALSE, <<>>, "Failed to get file info")
    ELSE Result(TRUE, <<>>, "None")

\* FileOperations.get_file_info
get_file_info(f, root, raw, mode) ==
    LET v == validate_path(root, raw, mode)
    IN  IF v.kind # "ok" THEN Result(FALSE, <<>>, "Failed to get file info")
        ELSE IF ~exists(f, v.path) THEN Result(FALSE, <<>>, "File not found")
        ELSE Result(TRUE, <<>>, "None")

\* delete_file, lines 419-428: the entry is removed after the backup b, and
\* u is what Path.unlink() did
delete_unlinked(lk, b, u) ==
    IF u.err # "None"
    THEN [res |-> Result(FALSE, <<>>, "Delete failed"), fs |-> b.fs, links |-> lk]
    ELSE [res |-> [Result(TRUE, <<>>, "None") EXCEPT !.backup_path = b.res.backup_path],
          fs |-> u.fs, links |-> u.links]

\* delete_file, lines 414-420: of a path that is validated and there
delete_found(lk, path, b) == delete_unlinked(lk, b, unlink(b.fs, lk, path))

\* FileOperations.delete_file: the result, the file system and the links
delete_file(f, lk, root, raw, mode, backup, ts) ==
    LET v == validate_path(root, raw, mode)
    IN  IF v.kind # "ok"
        THEN [res |-> Result(FALSE, <<>>, "Delete failed"), fs |-> f, links |-> lk]
        ELSE IF ~exists(f, v.path)
        THEN [res |-> Result(FALSE, <<>>, "File not found"), fs |-> f, links |-> lk]
        ELSE delete_found(lk, v.path,
                          IF backup THEN create_backup(f, root, Abs(v.path), mode, ts)
                          ELSE [res |-> NoResult, fs |-> f])

NoFiles == [files |-> <<>>, data |-> <<>>, dirs |-> {}]

\* no call: FileOperations is idle
NoCall ==
    [op |-> "none", pc |-> "idle", path |-> Rel(<<>>), content |-> <<>>,
     backup |-> FALSE, checked |-> "none", outside |-> FALSE, safe |-> <<>>,
     ino |-> 0,
     result |-> NoResult,
     before |-> [kind |-> "none", text |-> <<>>],
     fsBefore |-> [fs |-> NoFiles, links |-> NoLinks], n |-> 0,
     last |-> [op |-> "none", success |-> FALSE, content |-> <<>>],
     clock |-> "T1", overwritten |-> {}]

----------------------------------------------------------------------------
(* The session *)

NoPath == [kind |-> "none", path |-> <<>>]

\* no file operation is in progress and no file is looked at
NoFileCall == fs = NoFiles /\ call = NoCall

\* no tool output is parsed, main() is not running
NoOutput == [banner |-> FALSE, items |-> <<>>]
NoTestResult == [success |-> FALSE, all_tests_passed |-> FALSE, stats |-> NoStats,
                 error |-> "pending"]
NoProc == [pc |-> "none"]
NoWriters == <<>>
NoBatch == [pc |-> "none"]
NoSide ==
    /\ pin = NoOutput /\ pout = NoTestResult /\ proc = NoProc
    /\ writers = NoWriters /\ batch = NoBatch

\* no stage has used its tools yet
NoRun == [stage |-> "none"]

\* what the tools did in a stage (whether the subprocess timed out or
\* crashed) and what they returned to it; the test runner is called when the
\* test file exists
ToolRun(stage, pylint, analysis, has_test, tool, test_result) ==
    [stage |-> stage, pylint_crashed |-> pylint.crashed, analysis |-> analysis,
     has_test |-> has_test, tests_crashed |-> has_test /\ tool.crashed,
     test_result |-> IF has_test
                     THEN [success |-> test_result.success,
                           all_tests_passed |-> test_result.all_tests_passed]
                     ELSE [success |-> FALSE, all_tests_passed |-> FALSE]]

Init ==
    /\ targetDir \in TargetDirs
    /\ passing \in {{}, {FixA}, {OrigCode}}
    /\ pc = "auditor"
    /\ state = initial_state(targetDir)
    /\ disk = OrigCode
    /\ trace = <<>>
    /\ lastFix = NoFix
    /\ allThrew = TRUE
    /\ links = NoLinks
    /\ pyMode = "join"
    /\ vpIn = Rel(<<>>)
    /\ vpOut = NoPath
    /\ NoFileCall
    /\ NoSide
    /\ lastRun = NoRun

\* one node of the graph runs: its update is merged, the next node is chosen
Step(node, update) ==
    /\ state' = Merge(state, update)
    /\ trace' = Append(trace, node)
    /\ pc' = IF node = "judge" THEN "router"
             ELSE Continue(workflow(node, Merge(state, update)), Len(trace) + 1)

Auditor ==
    /\ pc = "auditor"
    /\ \E pylint \in PylintOutcomes, tool \in ToolOutcomes(disk) :
         LET sandbox == initialize_sandbox(SandboxArg)
             analysis == run_pylint(TmpPath, sandbox, pylint)
             has_test == os_path_exists(state.test_file)
             test_result == run_pytest(state.test_file, sandbox, tool)
         IN  /\ Step("auditor", auditor_agent(state, analysis, has_test, test_result))
             /\ lastRun' = ToolRun("auditor", pylint, analysis, has_test, tool, test_result)
    /\ UNCHANGED <<disk, lastFix, allThrew, targetDir, passing, links, pyMode, vpIn, vpOut, fileVars, sideVars>>

Fixer ==
    /\ pc = "fixer"
    /\ \E llm \in LLMOutcomes :
         /\ Step("fixer", fixer_agent(state, llm))
         /\ lastFix' = [called |-> TRUE, raised |-> llm.raised,
                        len |-> IF llm.raised THEN 0 ELSE CharLen(FixedCode(llm)),
                        before |-> state.code_content]
         /\ allThrew' = (allThrew /\ llm.raised)
    /\ UNCHANGED <<disk, targetDir, passing, links, pyMode, vpIn, vpOut, fileVars, sideVars, lastRun>>

\* the write of the candidate code to the target file may fail (the
\* exception is swallowed); the tests then run on what the file holds
Judge ==
    /\ pc = "judge"
    /\ \E written \in BOOLEAN :
         LET on_disk == IF written THEN state.code_content ELSE disk
         IN
         /\ disk' = on_disk
         /\ \E tool \in ToolOutcomes(on_disk), pylint \in PylintOutcomes :
              LET sandbox == initialize_sandbox(SandboxArg)
                  has_test == os_path_exists(state.test_file)
                  test_result == run_pytest(state.test_file, sandbox, tool)
                  analysis == run_pylint(TmpPath, sandbox, pylint)
              IN  /\ Step("judge", judge_agent(state, has_test, test_result, analysis))
                  /\ lastRun' = ToolRun("judge", pylint, analysis, has_test, tool, test_result)
    /\ UNCHANGED <<lastFix, allThrew, targetDir, passing, links, pyMode, vpIn, vpOut, fileVars, sideVars>>

\* the conditional edge after judge
Router ==
    /\ pc = "router"
    /\ pc' = Continue(workflow("judge", state), Len(trace))
    /\ UNCHANGED <<state, disk, trace, lastFix, allThrew, targetDir, passing,
                   links, pyMode, vpIn, vpOut, fileVars, sideVars, lastRun>>

Next == Auditor \/ Fixer \/ Judge \/ Router

Spec == Init /\ [][Next]_vars

----------------------------------------------------------------------------
(* The router on any state: the conditional edge is a function of the      *)
(* state alone, so it is also started on states no session of main.py      *)
(* reaches (iteration past the ceiling with is_success false)              *)

MaxInitIter == 7

InitRouter ==
    /\ targetDir = Abs(<<"w", "sandbox">>)
    /\ passing \in {{}, {FixA}}
    /\ pc = "router"
    /\ \E it \in 0..MaxInitIter, ok \in BOOLEAN :
         state = [initial_state(targetDir) EXCEPT !.iteration = it, !.is_success = ok]
    /\ disk = OrigCode
    /\ trace = <<>>
    /\ lastFix = NoFix
    /\ allThrew = TRUE
    /\ links = NoLinks
    /\ pyMode = "join"
    /\ vpIn = Rel(<<>>)
    /\ vpOut = NoPath
    /\ NoFileCall
    /\ NoSide
    /\ lastRun = NoRun

SpecRouter == InitRouter /\ [][Next]_vars

----------------------------------------------------------------------------
(* validate_path on its own: any path, under any of a few link layouts *)

MaxSegs == 3

Names == {"..", ".", "lnk", "esc", "sub", "etc", "sandbox"}
SegsUpTo(n) == UNION {[1..k -> Names] : k \in 0..n}

PathInputs ==
    {Rel(s) : s \in SegsUpTo(MaxSegs)} \cup
    {Abs(pre \o s) : pre \in {<<>>, <<"w", "sandbox">>}, s \in SegsUpTo(MaxSegs - 1)}

LnkAt == <<"w", "sandbox", "lnk">>
EscAt == <<"w", "sandbox", "esc">>
LnkTargets == {Rel(<<"lnk">>), Rel(<<"esc">>), Rel(<<"sub">>)}
EscTargets == {Abs(<<"etc">>), Rel(<<"lnk">>), Rel(<<"..">>)}

LinkLayouts ==
    {f \in UNION {[D -> LnkTargets \cup EscTargets] : D \in SUBSET {LnkAt, EscAt}} :
        /\ LnkAt \in DOMAIN f => f[LnkAt] \in LnkTargets
        /\ EscAt \in DOMAIN f => f[EscAt] \in EscTargets}

PyModes == {"raise", "join", "continue"}

InitPath ==
    /\ targetDir = Abs(<<"w", "sandbox">>)
    /\ passing = {}
    /\ pc = "validate"
    /\ state = initial_state(targetDir)
    /\ disk = OrigCode
    /\ trace = <<>>
    /\ lastFix = NoFix
    /\ allThrew = TRUE
    /\ links \in LinkLayouts
    /\ pyMode \in PyModes
    /\ vpIn \in PathInputs
    /\ vpOut = NoPath
    /\ NoFileCall
    /\ NoSide
    /\ lastRun = NoRun

\* the sandbox of the path checks: SandboxManager("./sandbox")
PathRoot == SandboxRoot(SandboxArg)

Validate ==
    /\ pc = "validate"
    /\ vpOut' = validate_path(PathRoot, vpIn, pyMode)
    /\ pc' = "validated"
    /\ UNCHANGED <<state, disk, trace, lastFix, allThrew, targetDir, passing,
                   links, pyMode, vpIn, fileVars, sideVars, lastRun>>

IsSafe ==
    /\ pc = "validate"
    /\ vpOut' = is_safe(PathRoot, vpIn, pyMode)
    /\ pc' = "checked"
    /\ UNCHANGED <<state, disk, trace, lastFix, allThrew, targetDir, passing,
                   links, pyMode, vpIn, fileVars, sideVars, lastRun>>

GetSafePath ==
    /\ pc = "validate"
    /\ vpOut' = get_safe_path(PathRoot, vpIn, pyMode)
    /\ pc' = "joined"
    /\ UNCHANGED <<state, disk, trace, lastFix, allThrew, targetDir, passing,
                   links, pyMode, vpIn, fileVars, sideVars, lastRun>>

NextPath == Validate \/ IsSafe \/ GetSafePath

SpecPath == InitPath /\ [][NextPath]_vars

----------------------------------------------------------------------------
(* run_tests on its own: any summary the subprocess may print *)

MaxItems == 2

Outputs ==
    [banner : BOOLEAN, items : UNION {[1..k -> Items] : k \in 0..MaxItems}]

InitParse ==
    /\ targetDir = Abs(<<"w", "sandbox">>)
    /\ passing = {}
    /\ pc = "run_tests"
    /\ state = initial_state(targetDir)
    /\ disk = OrigCode
    /\ trace = <<>>
    /\ lastFix = NoFix
    /\ allThrew = TRUE
    /\ links = NoLinks
    /\ pyMode = "join"
    /\ vpIn = Rel(<<>>)
    /\ vpOut = NoPath
    /\ NoFileCall
    /\ pin \in Outputs
    /\ pout = NoTestResult
    /\ proc = NoProc
    /\ writers = NoWriters
    /\ batch = NoBatch
    /\ lastRun = NoRun

RunTests ==
    /\ pc = "run_tests"
    /\ \E crashed \in BOOLEAN :
         pout' = run_tests_stats(state.test_file, initialize_sandbox(SandboxArg),
                                 [crashed |-> crashed, output |-> pin])
    /\ pc' = "returned"
    /\ UNCHANGED <<state, disk, trace, lastFix, allThrew, targetDir, passing,
                   links, pyMode, vpIn, vpOut, fileVars, pin, proc, writers,
                   batch, lastRun>>

NextParse == RunTests

SpecParse == InitParse /\ [][NextParse]_vars

----------------------------------------------------------------------------
(* The batch entry point: main.py main(), from the parsed --target_dir to   *)
(* the exit of the process.  An argument of log_experiment is a member of   *)
(* the ActionType enumeration or a plain string.                            *)

Member(value) == [enum |-> TRUE, value |-> value]
Str(value) == [enum |-> FALSE, value |-> value]

\* class ActionType(Enum): the values of its members
ActionType == {"CODE_ANALYSIS", "CODE_GEN", "DEBUG", "FIX", "STARTUP"}

\* log_experiment(action, details, status, agent_name, model_used): the
\* arguments are taken in this order; an action that is neither a member nor
\* the value of one raises ValueError.  (The check of the required keys never
\* applies: it looks the string action_str up in a list of members.)
log_experiment(action, details, status, agent_name, model_used) ==
    IF action.enum \/ action.value \in ActionType THEN "logged" ELSE "ValueError"

\* main.py:35-41, the call at startup, and main.py:139-145, the call of the
\* handler "except Exception": the positional arguments as written
StartupLog ==
    log_experiment(Str("System"), Str("System"), Member("DEBUG"),
                   Str("details"), Str("SUCCESS"))
HandlerLog ==
    log_experiment(Str("System"), Str("Unknown"), Member("DEBUG"),
                   Str("details"), Str("FAILURE"))

MaxFiles == 2

\* a *.py file of the target directory: whether its path holds "test",
\* whether a test file stands next to it, and how its session ends
PyFiles == [test : BOOLEAN, has_test : BOOLEAN, session : {"finished", "raised"}]

\* the loop over python_files (main.py:46-145): how it ends.  A file with
\* "test" in its path or without a test file is skipped; a session that
\* raises is reported by the handler, whose own logging call may raise, and
\* that exception leaves main()
RECURSIVE Batch(_)
Batch(files) ==
    IF files = <<>> THEN "complete"
    ELSE LET py_file == Head(files)
         IN  IF py_file.test \/ ~py_file.has_test THEN Batch(Tail(files))
             ELSE IF py_file.session = "raised" /\ HandlerLog = "ValueError"
                  THEN "ValueError"
             ELSE Batch(Tail(files))

\* main() is left: by sys.exit(status), by an exception that nothing catches
\* (the interpreter prints the traceback and exits with status 1), or by its end
Exit(p, status, complete) ==
    [p EXCEPT !.pc = "exited", !.status = status, !.complete = complete]

InitMain ==
    /\ targetDir \in TargetDirs
    /\ passing = {}
    /\ pc = "main"
    /\ state = initial_state(targetDir)
    /\ disk = OrigCode
    /\ trace = <<>>
    /\ lastFix = NoFix
    /\ allThrew = TRUE
    /\ links = NoLinks
    /\ pyMode = "join"
    /\ vpIn = Rel(<<>>)
    /\ vpOut = NoPath
    /\ NoFileCall
    /\ pin = NoOutput
    /\ pout = NoTestResult
    /\ writers = NoWriters
    /\ batch = NoBatch
    /\ lastRun = NoRun
    /\ \E exists_dir \in BOOLEAN,
          files \in UNION {[1..k -> PyFiles] : k \in 0..MaxFiles} :
         /\ exists_dir \/ files = <<>>
         /\ proc = [pc |-> "start", exists |-> exists_dir, files |-> files,
                    made |-> {}, sandbox |-> <<>>, status |-> 0,
                    complete |-> FALSE]

MainIdle == UNCHANGED <<pc, state, disk, trace, lastFix, allThrew, targetDir,
                        passing, links, pyMode, vpIn, vpOut, fileVars, pin, pout,
                        writers, batch, lastRun>>

\* main.py:22-25: if not os.path.exists(target_dir): ... sys.exit(1)
MainCheckDir ==
    /\ proc.pc = "start"
    /\ proc' = IF ~proc.exists THEN Exit(proc, 1, FALSE)
               ELSE [proc EXCEPT !.pc = "backup_dir"]
    /\ MainIdle

\* main.py:28-29: os.makedirs(os.path.join(target_dir, "backup"), exist_ok=True)
MainBackupDir ==
    /\ proc.pc = "backup_dir"
    /\ proc' = [proc EXCEPT !.pc = "sandbox", !.made = @ \cup {"backup"}]
    /\ MainIdle

\* main.py:32: sandbox = initialize_sandbox(target_dir)
MainSandbox ==
    /\ proc.pc = "sandbox"
    /\ proc' = [proc EXCEPT !.pc = "startup_log",
                            !.sandbox = initialize_sandbox(targetDir)]
    /\ MainIdle

\* main.py:34-147: the startup log entry, then the batch and MISSION_COMPLETE
MainRun ==
    /\ proc.pc = "startup_log"
    /\ proc' = IF StartupLog = "ValueError" THEN Exit(proc, 1, FALSE)
               ELSE IF Batch(proc.files) = "ValueError" THEN Exit(proc, 1, FALSE)
               ELSE Exit(proc, 0, TRUE)
    /\ MainIdle

NextMain == MainCheckDir \/ MainBackupDir \/ MainSandbox \/ MainRun

SpecMain == InitMain /\ [][NextMain]_vars

----------------------------------------------------------------------------
(* The file operations, one call at a time *)

\* what a reader finds at the target: its kind and, for a file, its bytes
TargetView(f, path) ==
    LET st == Stat(f, path)
    IN  [kind |-> st.kind,
         text |-> IF st.kind = "file" THEN f.data[f.files[st.at]] ELSE <<>>]

OldContent == <<"o", "l", "d">>
Leftover == <<"j">>
Contents == {<<"n", "e", "w">>, <<"n", "CR", "LF", "w", "CR">>, <<"n", "SUR">>}

TargetAt == FilesRoot \o <<"a.py">>
TempAt == FilesRoot \o <<"a.py.tmp">>
SecretAt == <<"etc", "passwd">>
BackupAt == FilesRoot \o <<"a.py.bak.T1">>

\* the paths given to the file operations
FilePaths ==
    {Rel(<<"a.py">>), Abs(TargetAt), Rel(<<"sub", "a.py">>), Rel(<<>>),
     Abs(SecretAt), Rel(<<"..", "..", "etc", "passwd">>), Abs(<<"etc", "a.py">>),
     Rel(<<"lnk", "..", "esc", "passwd">>)}

BaseDirs == {<<>>, <<"w">>, FilesRoot, <<"etc">>}

\* the file systems a call can find: the target there or not, and at the
\* temporary file's name nothing, a leftover file, a hard link to the
\* target or a symbolic link to it; or a link that loops next to a link that
\* leads out of the sandbox; or a link that leads to itself where the backup
\* of the first clock second would go
FileLayouts ==
    {[fs |-> [files |-> (SecretAt :> 9), data |-> (9 :> OldContent), dirs |-> BaseDirs],
      links |-> NoLinks],
     [fs |-> [files |-> (SecretAt :> 9) @@ (TargetAt :> 1),
              data |-> (9 :> OldContent) @@ (1 :> OldContent), dirs |-> BaseDirs],
      links |-> NoLinks],
     [fs |-> [files |-> (SecretAt :> 9) @@ (TargetAt :> 1) @@ (TempAt :> 2),
              data |-> (9 :> OldContent) @@ (1 :> OldContent) @@ (2 :> Leftover),
              dirs |-> BaseDirs],
      links |-> NoLinks],
     [fs |-> [files |-> (SecretAt :> 9) @@ (TargetAt :> 1) @@ (TempAt :> 1),
              data |-> (9 :> OldContent) @@ (1 :> OldContent), dirs |-> BaseDirs],
      links |-> NoLinks],
     [fs |-> [files |-> (SecretAt :> 9) @@ (TargetAt :> 1),
              data |-> (9 :> OldContent) @@ (1 :> OldContent), dirs |-> BaseDirs],
      links |-> (TempAt :> Rel(<<"a.py">>))],
     [fs |-> [files |-> (SecretAt :> 9), data |-> (9 :> OldContent), dirs |-> BaseDirs],
      links |-> (TempAt :> Rel(<<"a.py">>))],
     [fs |-> [files |-> (SecretAt :> 9) @@ (TargetAt :> 1),
              data |-> (9 :> OldContent) @@ (1 :> OldContent), dirs |-> BaseDirs],
      links |-> (LnkAt :> Rel(<<"lnk">>)) @@ (EscAt :> Abs(<<"etc">>))],
     [fs |-> [files |-> (SecretAt :> 9) @@ (TargetAt :> 1),
              data |-> (9 :> OldContent) @@ (1 :> OldContent),
              dirs |-> BaseDirs],
      links |-> (BackupAt :> Rel(<<"a.py.bak.T1">>))]}

MaxCalls == 2

\* a call begins: the first call is any operation on any path; a later one
\* reads the path of the call before, or writes it again after a write_file
\* that returned success
Begin(op, raw) ==
    /\ call.pc = "idle"
    /\ call.n < MaxCalls
    /\ call.n > 0 =>
         /\ raw = call.path
         /\ \/ op = "read_file" /\ call.op # "read_file"
            \/ op = "write_file" /\ call.op = "write_file" /\ call.result.success

\* the path, taken from the sandbox root, physically leads out of the sandbox
LeadsOut(raw) ==
    LET loc == Locate(IF raw.abs THEN raw.segs ELSE FilesRoot \o raw.segs)
    IN  raw # Rel(<<>>) /\ loc.kind = "ok" /\ ~IsPrefix(FilesRoot, loc.path)

Started(op, raw, v) ==
    [NoCall EXCEPT !.op = op, !.path = raw, !.n = call.n + 1,
                   !.checked = v.kind,
                   !.outside = LeadsOut(raw),
                   !.safe = IF v.kind = "ok" THEN v.path ELSE <<>>,
                   !.before = IF v.kind = "ok" THEN TargetView(fs, v.path)
                              ELSE NoCall.before,
                   !.fsBefore = [fs |-> fs, links |-> links],
                   !.clock = call.clock, !.overwritten = call.overwritten,
                   !.last = [op |-> call.op, success |-> call.result.success,
                             content |-> call.content]]

Return(c, res) == [c EXCEPT !.pc = "idle", !.result = res]

SessionIdle == UNCHANGED <<pc, state, disk, trace, lastFix, allThrew, targetDir,
                           passing, pyMode, vpIn, vpOut, sideVars, lastRun>>

ReadFile ==
    /\ \E raw \in FilePaths :
         /\ Begin("read_file", raw)
         /\ call' = Return(Started("read_file", raw, validate_path(FilesRoot, raw, pyMode)),
                           read_file(fs, FilesRoot, raw, pyMode))
    /\ UNCHANGED <<fs, links>>
    /\ SessionIdle

CreateBackup ==
    /\ \E raw \in FilePaths, ts \in Timestamps :
         /\ Begin("create_backup", raw)
         /\ LET r == create_backup(fs, FilesRoot, raw, pyMode, ts)
            IN  /\ call' = Return(Started("create_backup", raw,
                                          validate_path(FilesRoot, raw, pyMode)), r.res)
                /\ fs' = r.fs
    /\ UNCHANGED links
    /\ SessionIdle

GetFileInfo ==
    /\ \E raw \in FilePaths :
         /\ Begin("get_file_info", raw)
         /\ call' = Return(Started("get_file_info", raw,
                                   validate_path(FilesRoot, raw, pyMode)),
                           get_file_info(fs, FilesRoot, raw, pyMode))
    /\ UNCHANGED <<fs, links>>
    /\ SessionIdle

DeleteFile ==
    /\ \E raw \in FilePaths, backup \in BOOLEAN, ts \in Timestamps :
         /\ Begin("delete_file", raw)
         /\ LET r == delete_file(fs, links, FilesRoot, raw, pyMode, backup, ts)
            IN  /\ call' = Return([Started("delete_file", raw,
                                           validate_path(FilesRoot, raw, pyMode))
                                      EXCEPT !.backup = backup], r.res)
                /\ fs' = r.fs
                /\ links' = r.links
    /\ SessionIdle

\* write_file, step by step.  First the path is validated.
WriteFileValidate ==
    /\ \E raw \in FilePaths, content \in Contents, backup \in BOOLEAN :
         /\ Begin("write_file", raw)
         /\ LET v == validate_path(FilesRoot, raw, pyMode)
                c == [Started("write_file", raw, v)
                         EXCEPT !.content = content, !.backup = backup]
            IN  call' = IF v.kind = "SecurityError"
                        THEN Return(c, Result(FALSE, <<>>, "Security violation"))
                        ELSE IF v.kind # "ok"
                        THEN Return(c, Result(FALSE, <<>>, "Write failed"))
                        ELSE [c EXCEPT !.pc = "mkdir"]
    /\ UNCHANGED <<fs, links>>
    /\ SessionIdle

\* safe_path.parent.mkdir(parents=True, exist_ok=True)
WriteFileMkdir ==
    /\ call.pc = "mkdir"
    /\ LET m == mkdir(fs, Parent(call.safe))
       IN  /\ fs' = m.fs
           /\ call' = IF m.err # "None"
                      THEN Return(call, Result(FALSE, <<>>, "Write failed"))
                      ELSE [call EXCEPT !.pc = IF call.backup /\ exists(m.fs, call.safe)
                                               THEN "backup" ELSE "open"]
    /\ UNCHANGED links
    /\ SessionIdle

\* the backup of the file that is there, named after the clock second, which
\* is that of the backup before or a later one; its failure is ignored
WriteFileBackup ==
    /\ call.pc = "backup"
    /\ \E ts \in Timestamps :
         /\ call.clock = "T2" => ts = "T2"
         /\ LET b == create_backup(fs, FilesRoot, Abs(call.safe), pyMode, ts)
            IN  /\ fs' = b.fs
                /\ call' = [call EXCEPT !.pc = "open", !.clock = ts,
                                        !.result.backup_path = b.res.backup_path]
    /\ UNCHANGED links
    /\ SessionIdle

\* temp_path.write_text: the temporary file is opened for writing ...
WriteFileOpen ==
    /\ call.pc = "open"
    /\ LET o == open_w(fs, Sibling(call.safe, ".tmp"))
       IN  /\ fs' = o.fs
           /\ call' = IF o.err # "None"
                      THEN Return(call, Result(FALSE, <<>>, "Write failed"))
                      ELSE [call EXCEPT !.pc = "write", !.ino = o.ino]
    /\ UNCHANGED links
    /\ SessionIdle

\* ... and the content is written: all of it, or the device fails after a
\* part of it, or the content cannot be encoded
WriteFileWrite ==
    /\ call.pc = "write"
    /\ \/ /\ Encodable(call.content)
          /\ fs' = [fs EXCEPT !.data[call.ino] = call.content]
          /\ call' = [call EXCEPT !.pc = "rename"]
       \/ /\ Encodable(call.content)
          /\ \E k \in 0..(Len(call.content) - 1) :
               fs' = [fs EXCEPT !.data[call.ino] = SubSeq(call.content, 1, k)]
          /\ call' = Return(call, Result(FALSE, <<>>, "Write failed"))
       \/ /\ ~Encodable(call.content)
          /\ fs' = fs
          /\ call' = Return(call, Result(FALSE, <<>>, "Write failed"))
    /\ UNCHANGED links
    /\ SessionIdle

\* temp_path.replace(safe_path)
WriteFileRename ==
    /\ call.pc = "rename"
    /\ LET r == rename(fs, links, Sibling(call.safe, ".tmp"), call.safe)
       IN  /\ fs' = r.fs
           /\ links' = r.links
           /\ call' = IF r.err # "None"
                      THEN Return(call, Result(FALSE, <<>>, "Write failed"))
                      ELSE [call EXCEPT !.pc = "stat"]
    /\ SessionIdle

\* history: the content a write_file call has replaced after it had made
\* its backup
Overwritten(c) ==
    IF c.backup /\ c.before.kind = "file" /\ c.result.backup_path # <<>>
    THEN {c.before.text} ELSE {}

\* safe_path.stat() and the result
WriteFileStat ==
    /\ call.pc = "stat"
    /\ call' = IF Stat(fs, call.safe).kind \in {"file", "dir"}
               THEN Return([call EXCEPT !.overwritten = @ \cup Overwritten(call)],
                           [Result(TRUE, <<>>, "None")
                               EXCEPT !.backup_path = call.result.backup_path])
               ELSE Return(call, Result(FALSE, <<>>, "Write failed"))
    /\ UNCHANGED <<fs, links>>
    /\ SessionIdle

\* the process is interrupted during write_file; an interrupted write leaves
\* a part of the content
Crash ==
    /\ call.pc \notin {"idle"}
    /\ IF call.pc = "write" /\ Encodable(call.content)
       THEN \E k \in 0..(Len(call.content) - 1) :
                fs' = [fs EXCEPT !.data[call.ino] = SubSeq(call.content, 1, k)]
       ELSE fs' = fs
    /\ call' = [call EXCEPT !.pc = "idle", !.n = MaxCalls,
                            !.result = Result(FALSE, <<>>, "interrupted")]
    /\ UNCHANGED links
    /\ SessionIdle

InitFiles ==
    /\ targetDir = Abs(<<"w", "sandbox">>)
    /\ passing = {}
    /\ pc = "files"
    /\ state = initial_state(targetDir)
    /\ disk = OrigCode
    /\ trace = <<>>
    /\ lastFix = NoFix
    /\ allThrew = TRUE
    /\ pyMode = "join"
    /\ vpIn = Rel(<<>>)
    /\ vpOut = NoPath
    /\ \E l \in FileLayouts : fs = l.fs /\ links = l.links
    /\ call = NoCall
    /\ NoSide
    /\ lastRun = NoRun

NextFiles ==
    \/ ReadFile \/ CreateBackup \/ GetFileInfo \/ DeleteFile
    \/ WriteFileValidate \/ WriteFileMkdir \/ WriteFileBackup \/ WriteFileOpen
    \/ WriteFileWrite \/ WriteFileRename \/ WriteFileStat \/ Crash

SpecFiles == InitFiles /\ [][NextFiles]_vars

----------------------------------------------------------------------------
(* Properties *)

LastNode == IF trace = <<>> THEN "none" ELSE trace[Len(trace)]
Ran(node) == Cardinality({i \in 1..Len(trace) : trace[i] = node})
Cycles == Ran("judge")
StageOrder == <<"auditor", "fixer", "judge">>
TestsPassed(o) == o.ran /\ o.success /\ o.failed = 0 /\ o.errors = 0

\* the guards of Next: a node is due and the outcomes it draws from exist
CanStep ==
    \/ pc = "auditor" /\ PylintOutcomes # {} /\ ToolOutcomes(disk) # {}
    \/ pc = "fixer" /\ LLMOutcomes # {}
    \/ pc = "judge" /\ PylintOutcomes # {}
                     /\ \E written \in BOOLEAN :
                          ToolOutcomes(IF written THEN state.code_content ELSE disk) # {}
    \/ pc = "router"

C2_ValidatedInsideRoot ==
    pc = "validated" =>
        /\ vpOut.kind = "ok" =>
              LET loc == Locate(vpOut.path)
              IN  loc.kind = "ok" => IsPrefix(PathRoot, loc.path)
        /\ LET full == IF vpIn.abs THEN vpIn.segs ELSE PathRoot \o vpIn.segs
               loc  == Locate(full)
           IN  (vpIn # Rel(<<>>) /\ loc.kind = "ok" /\ ~IsPrefix(PathRoot, loc.path))
                   => vpOut.kind = "SecurityError"

\* C3: after Judging, is_success is true exactly when that stage's test run
\* passed (ran, succeeded, no failed and no errored test) or iteration has
\* reached 5; the quality score plays no part.
C3_SuccessIffPassedOrCeiling ==
    LastNode = "judge" =>
        (state.is_success <=>
            (TestsPassed(state.test_report.test_output)
                \/ state.iteration >= JudgeCeiling))

C3_Witness ==
    /\ pc = "router" /\ state.is_success /\ state.iteration < JudgeCeiling
    /\ state.test_report.score = 0

\* C4: out of Judging the session goes to END when is_success is true, to END
\* when iteration exceeds 5 whatever is_success is, and back to Auditing in
\* every other case; there is no other way out.
C4_RouterTransitions ==
    [][/\ pc = "judge" => pc' = "router"
       /\ pc = "router" =>
            pc' = IF state.is_success \/ state.iteration > RouterLimit
                  THEN "END" ELSE "auditor"]_vars

C4_Witness == pc = "END" /\ ~state.is_success /\ state.iteration > RouterLimit

\* C5: iteration starts at 0, each Auditing stage adds exactly 1, Fixing and
\* Judging leave it: it always equals the number of Auditing stages run.
C5_IterationCountsAudits == state.iteration = Ran("auditor")

C5_Witness == pc = "router" /\ state.iteration = 3

\* C6: the stages run in the order Auditing, Fixing, Judging, cycle after
\* cycle, starting with Auditing.
C6_StageOrder ==
    /\ \A i \in 1..Len(trace) : trace[i] = StageOrder[((i - 1) % 3) + 1]
    /\ pc = "auditor" => LastNode \in {"none", "judge"}
    /\ pc = "fixer" => LastNode = "auditor"
    /\ pc = "judge" => LastNode = "fixer"

C6_Witness == pc = "fixer" /\ Len(trace) > 6

\* C7: when every transformation call raises and the tests fail on the
\* original code, the session ends after exactly 5 cycles with iteration 5,
\* is_success true, test_passed false and the original code.
C7_AlwaysThrowing ==
    (pc = "END" /\ allThrew /\ OrigCode \notin passing) =>
        /\ Cycles = JudgeCeiling
        /\ state.iteration = JudgeCeiling
        /\ state.is_success
        /\ ~state.test_report.test_passed
        /\ state.code_content = OrigCode

C7_Witness ==
    /\ pc = "END" /\ allThrew /\ OrigCode \notin passing
    /\ state.test_report.test_output.success
    /\ state.test_report.test_output.failed > 0

\* C8: for any target directory, relative or absolute: when the target file
\* on disk holds code under which the tests pass and the test tool does not
\* crash, Judging reports test_passed and the session ends in success.
C8_PassingCodeIsReported ==
    (/\ LastNode = "judge"
     /\ lastFix.called /\ ~lastFix.raised /\ lastFix.len >= MinCodeLen
     /\ state.code_content # lastFix.before
     /\ disk = state.code_content
     /\ state.code_content \in passing
     /\ state.test_report.test_output.error # "Test execution failed")
        => (state.test_report.test_passed /\ state.is_success)

\* C9: when the transformation call raises, or returns a text whose
\* extracted code is empty or shorter than 10 characters, Fixing leaves
\* code_content as it was and the session goes on to Judging.
C9_FailedFixKeepsCode ==
    (LastNode = "fixer" /\ (lastFix.raised \/ lastFix.len < MinCodeLen)) =>
        (state.code_content = lastFix.before /\ pc = "judge")

C9_Witness ==
    /\ LastNode = "fixer" /\ ~lastFix.raised /\ lastFix.len = MinCodeLen - 1
    /\ state.code_content = FixB

\* a step changes no field of the state outside fields
Keeps(fields) == \A f \in DOMAIN state \ fields : state'[f] = state[f]

\* C10: Auditing changes only pylint_report and iteration, Fixing only
\* code_content, Judging only test_report and is_success; no stage changes
\* target_file or test_file.
C10_StageFrames ==
    [][/\ pc = "auditor" => Keeps({"pylint_report", "iteration"})
       /\ pc = "fixer" => Keeps({"code_content"})
       /\ pc = "judge" => Keeps({"test_report", "is_success"})
       /\ Keeps(DOMAIN state \ {"target_file", "test_file"})]_vars

C10_Witness ==
    /\ pc = "router" /\ state.code_content # OrigCode
    /\ ~state.test_report.empty /\ state.iteration > 1

\* C11: during a write_file call, after each of its steps and after an
\* interruption at any step, the target holds its complete previous content
\* (or is absent, if it was absent before) or the complete new content.
C11_TargetOldOrNew ==
    (call.op = "write_file" /\ call.safe # <<>>) =>
        \/ TargetView(fs, call.safe) = call.before
        \/ TargetView(fs, call.safe) = [kind |-> "file", text |-> call.content]

\* C12: a write_file that returns success, followed by read_file of the same
\* path, gives success and the content written; and after a successful
\* write no temporary file of it is left next to the target.
C12_WriteThenRead ==
    /\ (call.op = "read_file" /\ call.last.op = "write_file" /\ call.last.success) =>
           (call.result.success /\ call.result.content = call.last.content)
    /\ (call.op = "write_file" /\ call.pc = "idle" /\ call.result.success) =>
           Entry(fs, Sibling(call.safe, ".tmp")) = "none"

\* C13: a successful create_backup of an existing file leaves, at a path
\* other than the original's, a file holding the original's content as it
\* was at the call, and leaves the original as it was; create_backup of a
\* path that does not exist returns success = false and creates nothing.
C13_BackupCopies ==
    call.op = "create_backup" =>
        /\ call.result.success =>
              /\ call.before.kind = "file"
              /\ call.result.backup_path # call.safe
              /\ TargetView(fs, call.result.backup_path) = call.before
              /\ TargetView(fs, call.safe) = call.before
        /\ call.before.kind = "none" =>
              /\ ~call.result.success
              /\ fs = call.fsBefore.fs /\ links = call.fsBefore.links

C13_Witness ==
    /\ call.op = "create_backup" /\ call.result.success
    /\ call.before.text = OldContent
    /\ TargetView(fs, call.result.backup_path).kind = "file"

\* the call has returned; its path leads out of the sandbox; its file is
\* not there
Returned5 ==
    /\ call.op \in {"read_file", "write_file", "create_backup", "get_file_info",
                    "delete_file"}
    /\ call.pc = "idle" /\ call.result.error # "interrupted"
Missing == call.safe # <<>> /\ call.before.kind = "none"
Refused == ~call.result.success /\ call.result.error \notin {"None", "pending"}
Untouched == fs = call.fsBefore.fs /\ links = call.fsBefore.links

C15_DotDotRefused ==
    (pc = "validated" /\ \E i \in 1..Len(vpIn.segs) : vpIn.segs[i] = "..") =>
        vpOut.kind = "SecurityError"

\* C16: is_safe never raises; it gives true exactly when validate_path
\* returns a path, and false exactly when validate_path raises, which is a
\* ValueError for the empty path and a SecurityError otherwise.
C16_IsSafeAgrees ==
    pc = "checked" =>
        LET v == validate_path(PathRoot, vpIn, pyMode)
        IN  /\ vpOut.kind \in {"True", "False"}
            /\ vpOut.kind = "True" <=> v.kind = "ok"
            /\ vpOut.kind = "False" <=> v.kind \in {"SecurityError", "ValueError"}
            /\ vpIn = Rel(<<>>) => v.kind = "ValueError"

C16_Witness ==
    /\ pc = "checked" /\ vpOut.kind = "False" /\ vpIn = Rel(<<>>)

\* C17: get_safe_path takes its argument as relative to the sandbox root,
\* also when it is written in absolute form: what it validates and returns
\* is the root followed by the argument's segments.
C17_AlwaysRelative ==
    pc = "joined" =>
        vpOut = validate_path(PathRoot, Abs(PathRoot \o PathOf(vpIn).segs), pyMode)

\* C18: every result run_tests returns with success = true has non-negative
\* counts with total = passed + failed + skipped + errors, and
\* all_tests_passed = (failed = 0 and errors = 0), whichever pattern parsed it
C18_StatsAddUp ==
    (pc = "returned" /\ pout.success) =>
        /\ \A k \in DOMAIN pout.stats : pout.stats[k] >= 0
        /\ pout.stats.total = SumOf(pout.stats)
        /\ pout.all_tests_passed = (pout.stats.failed = 0 /\ pout.stats.errors = 0)

\* C19: no failure of a tool inside Auditing or Judging (timeout, crash,
\* missing path, path rejected by the sandbox) raises out of the stage or ends
\* the session: a failed test run is returned with success = false and
\* all_tests_passed = false and counts as test_passed = false, a failed
\* analysis is returned with score 0 and no issues, the stage completes and
\* the session goes on to the next stage
TestPath == validate_path(initialize_sandbox(SandboxArg), state.test_file, pyMode)
TestRunFailed ==
    /\ lastRun.has_test
    /\ lastRun.tests_crashed \/ TestPath.kind # "ok" \/ TestPath.path \notin FilesOnDisk
AnalysisFailed ==
    \/ lastRun.pylint_crashed
    \/ validate_path(initialize_sandbox(SandboxArg), TmpPath, pyMode).kind # "ok"
ReportedPassed ==
    IF lastRun.stage = "auditor" THEN state.pylint_report.test_passed = "True"
    ELSE state.test_report.test_passed
ReportedScore ==
    IF lastRun.stage = "auditor" THEN state.pylint_report.pylint_score
    ELSE state.test_report.score

C20_ExitsZeroUnlessMissing ==
    proc.pc = "exited" =>
        /\ proc.status # 0 => ~proc.exists
        /\ proc.exists => proc.complete /\ proc.status = 0

\* C25: in a session started with iteration = 0, iteration never exceeds 5,
\* so the router's "iteration > 5" branch never ends a session: every session
\* that reaches END does so with is_success = true
C25_CeilingNeverPassed ==
    /\ state.iteration <= RouterLimit
    /\ pc = "END" => state.is_success

\* a session ends at the ceiling, its tests still failing
C25_Witness ==
    /\ pc = "END" /\ state.is_success /\ state.iteration = RouterLimit
    /\ ~state.test_report.test_passed

\* C26: a session never ends with test_passed = true unless the passing test
\* run was made while the target file held exactly the code in the final
\* state's code_content, whether or not the Judge's write of the candidate
\* code succeeded.  (Nothing writes the target file between the Judge's test
\* run and END, so at END the file is as the test run saw it.)
C26_PassedOnFinalCode ==
    (pc = "END" /\ state.test_report.test_passed) => disk = state.code_content

\* C27: run_tests reports all_tests_passed = true only if at least one test
\* was counted (total >= 1); on an output without any parseable count the
\* result is not all_tests_passed = true
C27_PassedNeedsATest ==
    (pc = "returned" /\ pout.all_tests_passed) => pout.stats.total >= 1

\* C28: with create_backup = true, write_file never replaces and delete_file
\* never removes an existing file unless a backup copy holding that file's
\* prior content was created first in the same call; if the backup step
\* fails, the target is left as it was
BackupOf(path) ==
    {b \in {Sibling(path, BakSuffix(ts)) : ts \in Timestamps} : is_file(fs, b)}

C28_BackupBeforeLoss ==
    (/\ call.op \in {"write_file", "delete_file"} /\ call.backup
     /\ call.before.kind = "file"
     /\ TargetView(fs, call.safe) # call.before)
        => \E b \in BackupOf(call.safe) : fs.data[Ino(fs, b)] = call.before.text

\* C29: after any sequence of successful write_file calls with
\* create_backup = true on the same existing path, each of the overwritten
\* contents is the content of some backup file, also when two of the writes
\* happen within the same clock second
C29_BackupsRetained ==
    (call.op = "write_file" /\ call.pc = "idle" /\ call.result.success) =>
        \A old \in call.overwritten :
            \E b \in BackupOf(call.safe) : fs.data[Ino(fs, b)] = old

----------------------------------------------------------------------------
\* Two write_file calls on the same target at the same time
\* (file_ops.py:201-206).  Both are called with create_backup = False and
\* have validated the same path; each opens <name>.tmp for writing, writes
\* its content, renames the temporary file over the target and stats the
\* target, and the steps of the two calls interleave in any order.

Writers == 1..2
RaceContents == {<<"f", "i", "r", "s", "t">>, <<"t", "w", "o">>}

\* write(2) on a file opened with "w": the bytes go to the start of the file
\* the handle is open on, over what another handle has written there
write_text(f, ino, content) ==
    [f EXCEPT !.data[ino] = content \o SubSeq(@, Len(content) + 1, Len(@))]

\* the except clause of write_file
WriteFailed(w) ==
    [writers EXCEPT ![w].pc = "done", ![w].success = FALSE]

RaceIdle == UNCHANGED <<pc, state, disk, trace, lastFix, allThrew, targetDir,
                        passing, links, pyMode, vpIn, vpOut, call, pin, pout,
                        proc, batch, lastRun>>

InitRace ==
    /\ targetDir = Abs(<<"w", "sandbox">>)
    /\ passing = {}
    /\ pc = "race"
    /\ state = initial_state(targetDir)
    /\ disk = OrigCode
    /\ trace = <<>>
    /\ lastFix = NoFix
    /\ allThrew = TRUE
    /\ pyMode = "join"
    /\ vpIn = Rel(<<>>)
    /\ vpOut = NoPath
    /\ \E l \in {x \in FileLayouts : x.links = NoLinks /\ TempAt \notin DOMAIN x.fs.files} :
         /\ fs = l.fs /\ links = l.links
         /\ \E cs \in [Writers -> RaceContents] :
              writers = [w \in Writers |->
                           [pc |-> "open", content |-> cs[w], ino |-> 0,
                            success |-> FALSE,
                            before |-> TargetView(l.fs, TargetAt)]]
    /\ call = NoCall
    /\ pin = NoOutput /\ pout = NoTestResult /\ proc = NoProc /\ batch = NoBatch
    /\ lastRun = NoRun

\* temp_path.write_text(content): open(temp_path, "w") ...
RaceOpen(w) ==
    /\ writers[w].pc = "open"
    /\ LET o == open_w(fs, Sibling(TargetAt, ".tmp"))
       IN  /\ fs' = o.fs
           /\ writers' = IF o.err # "None" THEN WriteFailed(w)
                         ELSE [writers EXCEPT ![w].pc = "write", ![w].ino = o.ino]
    /\ RaceIdle

\* ... and the content is written and the file closed
RaceWrite(w) ==
    /\ writers[w].pc = "write"
    /\ fs' = write_text(fs, writers[w].ino, writers[w].content)
    /\ writers' = [writers EXCEPT ![w].pc = "rename"]
    /\ RaceIdle

\* temp_path.replace(safe_path)
RaceRename(w) ==
    /\ writers[w].pc = "rename"
    /\ LET r == rename(fs, links, Sibling(TargetAt, ".tmp"), TargetAt)
       IN  /\ fs' = r.fs
           /\ writers' = IF r.err # "None" THEN WriteFailed(w)
                         ELSE [writers EXCEPT ![w].pc = "stat"]
    /\ RaceIdle

\* safe_path.stat() and the result
RaceStat(w) ==
    /\ writers[w].pc = "stat"
    /\ writers' = IF Stat(fs, TargetAt).kind \in {"file", "dir"}
                  THEN [writers EXCEPT ![w].pc = "done", ![w].success = TRUE]
                  ELSE WriteFailed(w)
    /\ fs' = fs
    /\ RaceIdle

NextRace ==
    \E w \in Writers : RaceOpen(w) \/ RaceWrite(w) \/ RaceRename(w) \/ RaceStat(w)

SpecRace == InitRace /\ [][NextRace]_vars

\* C30: while two write_file calls on the same target interleave step by
\* step, the target holds the complete content of one of the two writes or
\* its complete previous content, and each call that has returned has
\* returned success = true
C30_InterleavedWritesWhole ==
    pc = "race" =>
        /\ \/ TargetView(fs, TargetAt) \in {writers[w].before : w \in Writers}
           \/ TargetView(fs, TargetAt) \in
                 {[kind |-> "file", text |-> writers[w].content] : w \in Writers}
        /\ \A w \in Writers : writers[w].pc = "done" => writers[w].success

----------------------------------------------------------------------------
\* The loop of main() over the files of the target directory
\* (main.py:44-147), one step per stage of a session.  It is taken from its
\* first statement, with the sandbox of main.py:32 in effect, as it runs once
\* the statements before it have returned; a stage is one step, and how it
\* ends (its temporary file written or not, deleted or not) is an input.

\* a *.py file of the target directory: whether its path holds "test" and
\* whether a test file stands next to it
Pairs == [test : BOOLEAN, has_test : BOOLEAN]
PyName(i) == IF i = 1 THEN TargetName ELSE "calc2.py"
PyFile(i) == OsAbs(os_path_join(targetDir, PyName(i)))

\* a file write: what is written, where, and the root of _global_sandbox
\* at that moment
FileWrite(what, path, root) == [what |-> what, path |-> path, root |-> root]

\* the temporary file of an Auditing or Judging stage (agents.py:81-97 and
\* 292-302): NamedTemporaryFile(delete=False) creates it, tmp.write may raise
\* (the code cannot be encoded, the device is full) and then nothing deletes
\* it; os.unlink may fail, which is swallowed
TmpOutcomes == {"deleted", "unlink_failed", "write_raised"}
NoTmp == [stage |-> "none", exists |-> FALSE, unlink_failed |-> FALSE]
TmpAfter(stage, out) ==
    [stage |-> stage, exists |-> out # "deleted",
     unlink_failed |-> out = "unlink_failed"]

BatchIdle == UNCHANGED <<pc, state, disk, trace, lastFix, allThrew, targetDir,
                         passing, links, pyMode, vpIn, vpOut, fileVars, pin,
                         pout, proc, writers, lastRun>>

InitBatch ==
    /\ targetDir \in TargetDirs
    /\ passing = {}
    /\ pc = "batch"
    /\ state = initial_state(targetDir)
    /\ disk = OrigCode
    /\ trace = <<>>
    /\ lastFix = NoFix
    /\ allThrew = TRUE
    /\ links = NoLinks
    /\ pyMode = "join"
    /\ vpIn = Rel(<<>>)
    /\ vpOut = NoPath
    /\ NoFileCall
    /\ pin = NoOutput /\ pout = NoTestResult /\ proc = NoProc
    /\ writers = NoWriters
    /\ lastRun = NoRun
    /\ \E files \in UNION {[1..k -> Pairs] : k \in 0..MaxFiles} :
         batch = [pc |-> "loop", files |-> files, i |-> 1,
                  sandbox |-> initialize_sandbox(targetDir),
                  global_sandbox |-> initialize_sandbox(targetDir),
                  iteration |-> 0, is_success |-> FALSE, changed |-> FALSE,
                  writes |-> {}, tmp |-> NoTmp, raised |-> {},
                  status |-> 0, complete |-> FALSE]

\* main.py:46-66 and 147: the next file; it is skipped with "test" in its
\* path or without a test file; after the last one MISSION_COMPLETE is printed
BatchNextFile ==
    /\ batch.pc = "loop"
    /\ batch' = IF batch.i > Len(batch.files)
                THEN [batch EXCEPT !.pc = "exited", !.status = 0, !.complete = TRUE]
                ELSE IF batch.files[batch.i].test \/ ~batch.files[batch.i].has_test
                THEN [batch EXCEPT !.i = @ + 1]
                ELSE [batch EXCEPT !.pc = "backup"]
    /\ BatchIdle

\* main.py:69-87: shutil.copy(py_file, backup_path) into <target_dir>/backup,
\* and the initial state
BatchBackup ==
    /\ batch.pc = "backup"
    /\ batch' = [batch EXCEPT
                   !.pc = "auditor", !.iteration = 0, !.is_success = FALSE,
                   !.changed = FALSE, !.tmp = NoTmp,
                   !.writes = @ \cup
                       {FileWrite("backup",
                                  OsAbs(os_path_join(os_path_join(targetDir, "backup"),
                                                     PyName(batch.i))),
                                  batch.global_sandbox)}]
    /\ BatchIdle

\* auditor_agent (agents.py:68-150): initialize_sandbox("./sandbox"), the
\* temporary file in ./sandbox, the tools, os.unlink
BatchAuditor ==
    /\ batch.pc = "auditor"
    /\ \E out \in TmpOutcomes :
         batch' = [batch EXCEPT
                     !.pc = IF out = "write_raised" THEN "handler" ELSE "fixer",
                     !.global_sandbox = initialize_sandbox(SandboxArg),
                     !.writes = @ \cup {FileWrite("tmp", TmpPath.segs,
                                                  initialize_sandbox(SandboxArg))},
                     !.tmp = TmpAfter("auditor", out),
                     !.iteration = IF out = "write_raised" THEN @ ELSE @ + 1]
    /\ BatchIdle

\* fixer_agent (agents.py:153-250): it writes no file; the code it returns
\* differs from the code main() read, or not
BatchFixer ==
    /\ batch.pc = "fixer"
    /\ \E changed \in BOOLEAN :
         batch' = [batch EXCEPT !.pc = "judge", !.changed = changed]
    /\ BatchIdle

\* judge_agent (agents.py:253-336): initialize_sandbox("./sandbox"), the write
\* of the code to target_file (a failure is swallowed), the tests, the
\* temporary file in ./sandbox, os.unlink, is_success
BatchJudge ==
    /\ batch.pc = "judge"
    /\ \E written \in BOOLEAN, test_passed \in BOOLEAN, out \in TmpOutcomes :
         batch' = [batch EXCEPT
                     !.pc = IF out = "write_raised" THEN "handler" ELSE "router",
                     !.global_sandbox = initialize_sandbox(SandboxArg),
                     !.writes = @ \cup
                         (IF written
                          THEN {FileWrite("target_file", PyFile(batch.i),
                                          initialize_sandbox(SandboxArg))}
                          ELSE {})
                         \cup {FileWrite("tmp", TmpPath.segs,
                                         initialize_sandbox(SandboxArg))},
                     !.tmp = TmpAfter("judge", out),
                     !.is_success = IF out = "write_raised" THEN @
                                    ELSE test_passed \/ batch.iteration >= JudgeCeiling]
    /\ BatchIdle

\* router (graph.py:5-12) and the break of main.py:113-119
BatchRouter ==
    /\ batch.pc = "router"
    /\ batch' = [batch EXCEPT
                   !.pc = IF batch.is_success \/ batch.iteration > RouterLimit
                          THEN "write_back" ELSE "auditor"]
    /\ BatchIdle

\* main.py:124-133: the final code is written to py_file if it differs
BatchWriteBack ==
    /\ batch.pc = "write_back"
    /\ batch' = [batch EXCEPT
                   !.pc = "loop", !.i = @ + 1,
                   !.writes = @ \cup
                       (IF batch.changed
                        THEN {FileWrite("py_file", PyFile(batch.i),
                                        batch.global_sandbox)}
                        ELSE {})]
    /\ BatchIdle

\* main.py:135-145: except Exception; its log_experiment call may raise, and
\* that exception leaves main()
BatchHandler ==
    /\ batch.pc = "handler"
    /\ batch' = IF HandlerLog = "ValueError"
                THEN [batch EXCEPT !.pc = "exited", !.status = 1,
                                   !.raised = @ \cup {batch.i}]
                ELSE [batch EXCEPT !.pc = "loop", !.i = @ + 1,
                                   !.raised = @ \cup {batch.i}]
    /\ BatchIdle

NextBatch ==
    \/ BatchNextFile \/ BatchBackup \/ BatchAuditor \/ BatchFixer
    \/ BatchJudge \/ BatchRouter \/ BatchWriteBack \/ BatchHandler

SpecBatch == InitBatch /\ [][NextBatch]_vars

\* C21: an exception raised inside one file's session ends only that
\* session: the orchestrator does not stop before it has gone through every
\* file of the batch
C21_RaisedSessionEndsAlone ==
    batch.pc = "exited" => (batch.complete /\ batch.i > Len(batch.files))

\* C22: every file write of a repair session (the temporary files of
\* Auditing and Judging, the Judge's write to the target path, the
\* orchestrator's backup copy and write-back) goes to a path inside the
\* sandbox root in effect at the moment of the write
C22_WritesInsideRoot ==
    batch.pc # "none" => \A w \in batch.writes : IsPrefix(w.root, w.path)

\* C23: once the batch entry point has initialized the sandbox for the
\* target directory, no stage replaces the sandbox in effect with one for a
\* different root
C23_RootFixedOnce ==
    batch.pc # "none" => batch.global_sandbox = batch.sandbox

\* C24: when an Auditing or Judging stage has returned, normally or by an
\* exception raised after it created its temporary file, that file no longer
\* exists, unless its deletion failed
C24_TmpGoneAfterStage ==
    (batch.pc # "none" /\ batch.tmp.exists) => batch.tmp.unlink_failed

====
